---- MODULE Spec2Model ----
(***************************************************************************)
(* Slug generation and assignment for business_cards                       *)
(* (supabase/migrations/20250831154623_billowing_hill.sql), the client     *)
(* statements that write the table (AdminPanel.handleSave), the public     *)
(* page that reads it (PublicCard) and the media list of a card            *)
(* (MediaUpload).                                                          *)
(*                                                                         *)
(* A text value is a sequence of one-character strings.  SQL NULL of type  *)
(* text is the marker NULL below; a NULL uuid is NoUser.                   *)
(***************************************************************************)
EXTENDS Integers, Sequences, FiniteSets, TLC

\* ------------------------------------------------------------------ bounds
MaxUsers == 2
MaxLen == 3
MaxRows == 2
MaxViews == 2
MaxPanels == 2
MaxTimers == 1
MaxLoads == 2
MaxOps == 2
MaxItems == 3
MaxFiles == 2

\* --------------------------------------------------------------- text type
NULL == <<"NULL">>

NoUser == 0

Users == 1..MaxUsers

LowerSeq == <<"a","b","c","d","e","f","g","h","i","j","k","l","m",
              "n","o","p","q","r","s","t","u","v","w","x","y","z">>

UpperSeq == <<"A","B","C","D","E","F","G","H","I","J","K","L","M",
              "N","O","P","Q","R","S","T","U","V","W","X","Y","Z">>

DigitSeq == <<"0","1","2","3","4","5","6","7","8","9">>

Range(s) == {s[i] : i \in DOMAIN s}

\* the character class [a-zA-Z0-9] of the pattern on line 40
AlnumChars == Range(LowerSeq) \cup Range(UpperSeq) \cup Range(DigitSeq)

IsAlnum(c) == c \in AlnumChars

\* lower() on the upper-case letters
LowerOf == [c \in Range(UpperSeq) |->
              LowerSeq[CHOOSE i \in DOMAIN UpperSeq : UpperSeq[i] = c]]

\* lower() on one character
LowerChar(c) == IF c \in DOMAIN LowerOf THEN LowerOf[c] ELSE c

\* lower(text)
Lower(s) == [i \in DOMAIN s |-> LowerChar(s[i])]

\* the pattern without its + quantifier: every match is one character long
RunEndOne(s, i) == i + 1

\* first position at or after i that holds a character of [a-zA-Z0-9],
\* Len(s)+1 when there is none: the end of the maximal run matched by
\* '[^a-zA-Z0-9]+' that starts at i
RunEnd(s, i) ==
  IF \E j \in i..Len(s) : IsAlnum(s[j])
    THEN CHOOSE j \in i..Len(s) :
           IsAlnum(s[j]) /\ \A k \in i..(j - 1) : ~IsAlnum(s[k])
    ELSE Len(s) + 1

RECURSIVE RegexpReplaceFrom(_, _)
RegexpReplaceFrom(s, i) ==
  IF i > Len(s) THEN <<>>
  ELSE IF IsAlnum(s[i]) THEN <<s[i]>> \o RegexpReplaceFrom(s, i + 1)
  ELSE <<"-">> \o RegexpReplaceFrom(s, RunEnd(s, i))

\* regexp_replace(input_text, '[^a-zA-Z0-9]+', '-', 'g')
RegexpReplace(s) == RegexpReplaceFrom(s, 1)

\* trim(both '-' from s)
TrimHyphens(s) ==
  IF \A i \in DOMAIN s : s[i] = "-" THEN <<>>
  ELSE LET first == CHOOSE i \in DOMAIN s :
                      s[i] # "-" /\ \A k \in 1..(i - 1) : s[k] = "-"
           last_ == CHOOSE i \in DOMAIN s :
                      s[i] # "-" /\ \A k \in (i + 1)..Len(s) : s[k] = "-"
       IN SubSeq(s, first, last_)

\* the hyphens trimmed before the replacement instead of after it
NormalizeTrimFirst(input_text) == Lower(RegexpReplace(TrimHyphens(input_text)))

\* lines 40-41: the base slug of an input text
Normalize(input_text) == TrimHyphens(Lower(RegexpReplace(input_text)))

\* integer -> text, as the || operator casts the counter on line 58
RECURSIVE IntToText(_)
IntToText(n) ==
  IF n < 10 THEN <<DigitSeq[n + 1]>>
  ELSE IntToText(n \div 10) \o <<DigitSeq[(n % 10) + 1]>>

\* ------------------------------------------------- generate_unique_slug

\* substr(gen_random_uuid()::text, 1, 8): eight lower-case hex digits, a
\* fresh draw per call
Uuid8 == { <<"0","0","0","0","0","0","0","7">>,
           <<"a","1","b","2","c","3","d","4">> }

\* the base slug without the fallback of lines 44-46
BaseSlugNoFallback(input_text, uuid8) == Normalize(input_text)

\* lines 43-46
BaseSlug(input_text, uuid8) ==
  IF Normalize(input_text) = <<>>
    THEN <<"c","a","r","d","-">> \o uuid8
    ELSE Normalize(input_text)

\* the candidate never changed by the loop
FinalSlugNoSuffix(base_slug, n) == base_slug

\* the suffix appended without its separating hyphen
FinalSlugNoHyphen(base_slug, n) ==
  IF n = 0 THEN base_slug ELSE base_slug \o IntToText(n)

\* lines 48 and 58: the value of final_slug when the counter is n
FinalSlug(base_slug, n) ==
  IF n = 0 THEN base_slug ELSE base_slug \o <<"-">> \o IntToText(n)

\* the EXISTS subquery without the owner condition of line 55
SlugExistsAnyOwner(rows, final_slug, user_id_param) ==
  \E r \in rows : r.slug # NULL /\ r.slug = final_slug

\* lines 52-56: the EXISTS subquery over business_cards
SlugExists(rows, final_slug, user_id_param) ==
  \E r \in rows :
    /\ r.slug # NULL
    /\ r.slug = final_slug
    /\ (user_id_param = NoUser \/ r.user_id # user_id_param)

\* the loop stepping the counter by two on a conflict
RECURSIVE ProbeCounterSkipping(_, _, _, _)
ProbeCounterSkipping(rows, base_slug, user_id_param, counter) ==
  IF SlugExists(rows, FinalSlug(base_slug, counter), user_id_param)
    THEN ProbeCounterSkipping(rows, base_slug, user_id_param, counter + 2)
    ELSE counter

\* the loop never entered
ProbeCounterNoLoop(rows, base_slug, user_id_param, counter) == counter

\* lines 52-59: the WHILE loop; the value of counter when it exits
RECURSIVE ProbeCounter(_, _, _, _)
ProbeCounter(rows, base_slug, user_id_param, counter) ==
  IF SlugExists(rows, FinalSlug(base_slug, counter), user_id_param)
    THEN ProbeCounter(rows, base_slug, user_id_param, counter + 1)
    ELSE counter

\* lines 32-63
generate_unique_slug(input_text, rows, user_id_param, uuid8) ==
  LET base_slug == BaseSlug(input_text, uuid8)
  IN FinalSlug(base_slug, ProbeCounter(rows, base_slug, user_id_param, 0))

\* ---------------------------------------------------------- set_card_slug

Card == <<"c","a","r","d">>

\* COALESCE(NEW.title, 'card'), line 70
CoalesceTitle(title) == IF title = NULL THEN Card ELSE title

\* the comparison of line 75 true for equal slugs as well
SqlDistinctOrEqual(a, b) == a # NULL /\ b # NULL

\* OLD.slug != NEW.slug as an IF condition (line 75): a NULL operand makes
\* the comparison NULL, which IF treats as not true
SqlDistinct(a, b) == a # NULL /\ b # NULL /\ a # b

\* the trigger regenerating the slug on every UPDATE
set_card_slug_update_always(TG_OP, old, new, rows, uuid8) ==
  IF new.slug = NULL \/ new.slug = <<>>
    THEN [new EXCEPT !.slug =
            generate_unique_slug(CoalesceTitle(new.title), rows, new.user_id, uuid8)]
  ELSE [new EXCEPT !.slug =
          generate_unique_slug(new.slug, rows, new.user_id, uuid8)]

\* the trigger trusting a provided slug on INSERT
set_card_slug_insert_keeps(TG_OP, old, new, rows, uuid8) ==
  IF new.slug = NULL \/ new.slug = <<>>
    THEN [new EXCEPT !.slug =
            generate_unique_slug(CoalesceTitle(new.title), rows, new.user_id, uuid8)]
  ELSE IF TG_OP = "UPDATE"
    THEN IF SqlDistinct(old.slug, new.slug)
           THEN [new EXCEPT !.slug =
                   generate_unique_slug(new.slug, rows, new.user_id, uuid8)]
           ELSE new
  ELSE new

\* the trigger normalizing a provided slug on INSERT without probing the table
set_card_slug_insert_unprobed(TG_OP, old, new, rows, uuid8) ==
  IF new.slug = NULL \/ new.slug = <<>>
    THEN [new EXCEPT !.slug =
            generate_unique_slug(CoalesceTitle(new.title), rows, new.user_id, uuid8)]
  ELSE IF TG_OP = "UPDATE"
    THEN IF SqlDistinct(old.slug, new.slug)
           THEN [new EXCEPT !.slug =
                   generate_unique_slug(new.slug, rows, new.user_id, uuid8)]
           ELSE new
  ELSE [new EXCEPT !.slug = BaseSlug(new.slug, uuid8)]

\* the trigger regenerating from the title with no owner excluded
set_card_slug_title_unscoped(TG_OP, old, new, rows, uuid8) ==
  IF new.slug = NULL \/ new.slug = <<>>
    THEN [new EXCEPT !.slug =
            generate_unique_slug(CoalesceTitle(new.title), rows, NoUser, uuid8)]
  ELSE IF TG_OP = "UPDATE"
    THEN IF SqlDistinct(old.slug, new.slug)
           THEN [new EXCEPT !.slug =
                   generate_unique_slug(new.slug, rows, new.user_id, uuid8)]
           ELSE new
  ELSE [new EXCEPT !.slug =
          generate_unique_slug(new.slug, rows, new.user_id, uuid8)]

\* lines 66-85: the row the BEFORE INSERT OR UPDATE trigger hands to the write
set_card_slug(TG_OP, old, new, rows, uuid8) ==
  IF new.slug = NULL \/ new.slug = <<>>
    THEN [new EXCEPT !.slug =
            generate_unique_slug(CoalesceTitle(new.title), rows, new.user_id, uuid8)]
  ELSE IF TG_OP = "UPDATE"
    THEN IF SqlDistinct(old.slug, new.slug)
           THEN [new EXCEPT !.slug =
                   generate_unique_slug(new.slug, rows, new.user_id, uuid8)]
           ELSE new
  ELSE [new EXCEPT !.slug =
          generate_unique_slug(new.slug, rows, new.user_id, uuid8)]

\* ------------------------------------------------------------------- state

VARIABLES
  business_cards,   \* the table: a set of rows
  last,             \* the last statement executed against business_cards
  call,             \* a direct call of generate_unique_slug: inputs and result
  loop,             \* the locals of generate_unique_slug while its loop runs
  views,            \* per card, the trackCardView calls completed so far
  tx,               \* per user, an INSERT statement between trigger and commit
  panel,            \* per open AdminPanel, its React state and handleSave position
  page,             \* the React state of one PublicCard and its loads in flight
  media             \* media_items of one card and the MediaUpload showing them

vars == <<business_cards, last, call, loop, views, tx, panel, page, media>>

\* the variables of the components that take no part in a specification
db == <<loop, views, tx, media>>
ui == <<panel, page>>

Alice == <<"a","l","i","c","e">>

\* slug values a statement supplies (formData.username || null, or SQL)
SlugInputs == { NULL, <<>>, Alice, <<"A","l","i","c","e">> }

\* title values a statement supplies (formData.title, or SQL)
Titles == { NULL, <<>>, <<"A","l","i","c","e">> }

\* title values of the saves from the empty table: handleSave sends a text,
\* never NULL; the run of hyphens is collapsed by the generator
DeepTitles == { <<>>, <<"A","l","-","-","e">> }

\* history of a single statement: what it supplied and the table it ran on
NoStatement == [op |-> "none", user_id |-> NoUser, slug |-> NULL,
                title |-> NULL, pre |-> {}]

Statement(op, user_id, slug, title) ==
  [op |-> op, user_id |-> user_id, slug |-> slug, title |-> title,
   pre |-> business_cards]

NoCall == [input_text |-> <<>>, user_id_param |-> NoUser, uuid8 |-> <<>>,
           result |-> NULL, done |-> FALSE]

\* generate_unique_slug not running
NoLoop == [pc |-> "idle", base_slug |-> NULL, final_slug |-> NULL, counter |-> 0]

\* no trackCardView has completed
NoViews == [u \in Users |-> 0]

\* no INSERT statement is open; slug_unique tells whether the schema has a
\* unique constraint on business_cards.slug
NoTx == [stmt |-> [u \in Users |-> [pc |-> "none", seed |-> NULL, new |-> NULL]],
         slug_unique |-> FALSE]

\* no MediaUpload is mounted and no card has media
NoMedia == <<>>

\* no AdminPanel is open
NoPanel == <<>>

\* no PublicCard is mounted
NoPage == <<>>

\* the components that take no part in a specification stay as they are
Idle ==
  /\ loop = NoLoop
  /\ views = NoViews
  /\ tx = NoTx
  /\ media = NoMedia
  /\ panel = NoPanel
  /\ page = NoPage

\* the id of a new row (gen_random_uuid() as column default): one not in use
NewId(rows) == CHOOSE i \in 1..(Cardinality(rows) + 1) : \A r \in rows : r.id # i

\* the table without the constraint of lines 19-29
UserIdUniqueOff(rows) == TRUE

\* lines 19-29: business_cards_user_id_unique
UserIdUnique(rows) ==
  \A r1, r2 \in rows : r1.user_id = r2.user_id => r1.id = r2.id

\* the table after the migration ran on an empty business_cards
Init ==
  /\ business_cards = {}
  /\ last = NoStatement
  /\ call = NoCall
  /\ Idle

\* the rows the trigger can hand to the write, one per draw of the uuid
TriggerRows(TG_OP, old, new0, rows) ==
  {set_card_slug(TG_OP, old, new0, rows, uuid8) : uuid8 \in Uuid8}

\* AdminPanel.tsx 260-266: INSERT INTO business_cards (user_id, title, slug,
\* is_published, ...); the trigger runs first, then the unique constraint on
\* user_id accepts the row or fails the statement
Insert(user_id, slug, title, is_published) ==
  LET new0 == [id |-> NewId(business_cards), user_id |-> user_id,
               slug |-> slug, title |-> title, view_count |-> 0,
               is_published |-> is_published]
  IN \E new \in TriggerRows("INSERT", new0, new0, business_cards) :
       business_cards' =
         IF UserIdUnique(business_cards \cup {new})
           THEN business_cards \cup {new}
           ELSE business_cards

\* AdminPanel.tsx 250-258: UPDATE business_cards SET title, slug,
\* is_published, ... WHERE id = cardId
UpdateCard(old, slug, title, is_published) ==
  /\ old \in business_cards
  /\ LET new0 == [old EXCEPT !.slug = slug, !.title = title,
                             !.is_published = is_published]
     IN \E new \in TriggerRows("UPDATE", old, new0, business_cards) :
          business_cards' = (business_cards \ {old}) \cup {new}

\* part_001 136-169 (PublicCard.trackCardView): look the card up by route
\* slug among published rows (.single(): exactly one match), then
\* UPDATE business_cards SET view_count = (card.view_count || 0) + 1 with
\* card holding only the selected id column
TrackCardView(cardId) ==
  /\ cardId # <<>>
  /\ LET found == {r \in business_cards :
                     r.slug # NULL /\ r.slug = cardId /\ r.is_published}
     IN /\ Cardinality(found) = 1
        /\ \E old \in found :
             LET new0 == [old EXCEPT !.view_count = 0 + 1]
             IN \E new \in TriggerRows("UPDATE", old, new0, business_cards) :
                  business_cards' = (business_cards \ {old}) \cup {new}

\* serialized statements against the table, starting from the empty table
Next ==
  \/ /\ \E u \in Users, s \in SlugInputs, t \in DeepTitles, p \in BOOLEAN :
          Insert(u, s, t, p)
     /\ UNCHANGED <<last, call, db, ui>>
  \/ /\ \E r \in business_cards :
          \E s \in SlugInputs \cup {r.slug}, t \in DeepTitles, p \in BOOLEAN :
            UpdateCard(r, s, t, p)
     /\ UNCHANGED <<last, call, db, ui>>
  \/ /\ \E r \in business_cards : TrackCardView(r.slug)
     /\ UNCHANGED <<last, call, db, ui>>

Spec == Init /\ [][Next]_vars

\* ------------------------------------------- one statement on a stored table

Alice1 == Alice \o <<"-","1">>

Card1 == Card \o <<"-","1">>

\* slugs of rows already stored when the statement runs
StoredSlugs == { Alice, Alice1, Card, Card1 }

StoredRow(u, slug, is_published) ==
  [id |-> u, user_id |-> u, slug |-> slug, title |-> <<>>,
   view_count |-> 0, is_published |-> is_published]

\* tables with at most one row per user (business_cards_user_id_unique) and
\* a non-empty slug in every row (the trigger fills it); two rows may hold
\* the same slug, the state lines 5-6 of the migration describe and the one
\* two overlapping inserts leave behind
StoredTables ==
  { { StoredRow(u, f[u][1], f[u][2]) : u \in {v \in Users : f[v] # <<>>} } :
      f \in [Users -> {<<>>} \cup (StoredSlugs \X BOOLEAN)] }

WriteInit ==
  /\ business_cards \in StoredTables
  /\ last = NoStatement
  /\ call = NoCall
  /\ Idle

WriteInsert(u, s, t, p) ==
  /\ last = NoStatement
  /\ Insert(u, s, t, p)
  /\ last' = Statement(IF business_cards' # business_cards
                         THEN "insert" ELSE "insert_rejected", u, s, t)
  /\ UNCHANGED <<call, db, ui>>

WriteUpdate(r, s, t, p) ==
  /\ last = NoStatement
  /\ UpdateCard(r, s, t, p)
  /\ last' = Statement("update", r.user_id, s, t)
  /\ UNCHANGED <<call, db, ui>>

WriteView(r) ==
  /\ last = NoStatement
  /\ TrackCardView(r.slug)
  /\ last' = Statement("view", r.user_id, r.slug, r.title)
  /\ UNCHANGED <<call, db, ui>>

WriteNext ==
  \/ \E u \in Users, s \in SlugInputs, t \in Titles, p \in BOOLEAN :
       WriteInsert(u, s, t, p)
  \/ \E r \in business_cards :
       \E s \in SlugInputs \cup {r.slug}, t \in Titles, p \in BOOLEAN :
         WriteUpdate(r, s, t, p)
  \/ \E r \in business_cards : WriteView(r)

WriteSpec == WriteInit /\ [][WriteNext]_vars

\* --------------------------------------- generate_unique_slug as a function

Alphabet == {"a", "B", "1", "-", "!"}

\* every text over Alphabet of at most MaxLen characters, and the seeds the
\* examples of the specification name
Texts ==
  UNION {[1..k -> Alphabet] : k \in 0..MaxLen}
    \cup { Card1, <<"C","a","r","d"," ","1">>, <<"A","l","i","c","e">> }

A1 == <<"a","-","1">>

Card11 == Card1 \o <<"-","1">>

SnapshotSlugs == { <<"a">>, A1, Card1, Card11 }

\* a snapshot of business_cards: at most MaxRows rows, one per owner
Snapshots ==
  { { StoredRow(u, f[u], TRUE) : u \in {v \in 1..MaxRows : f[v] # <<>>} } :
      f \in [1..MaxRows -> {<<>>} \cup SnapshotSlugs] }

\* NULL, the user who owns row 1 when the snapshot has it (Snapshots is
\* closed under renaming owners), or a user who owns no row
OwnerParams == {NoUser, 1, MaxRows + 1}

GenInit ==
  /\ business_cards \in Snapshots
  /\ last = NoStatement
  /\ call \in [input_text : Texts, user_id_param : OwnerParams,
               uuid8 : {<<>>}, result : {NULL}, done : {FALSE}]
  /\ Idle

\* line 45 draws a uuid only when the normalized input is empty
UuidDraws(input_text) ==
  IF Normalize(input_text) = <<>> THEN Uuid8 ELSE {<<>>}

\* SELECT generate_unique_slug(input_text, 'business_cards', user_id_param)
GenerateCall ==
  /\ ~call.done
  /\ \E uuid8 \in UuidDraws(call.input_text) :
       call' = [call EXCEPT
                  !.uuid8 = uuid8,
                  !.result = generate_unique_slug(call.input_text, business_cards,
                                                  call.user_id_param, uuid8),
                  !.done = TRUE]
  /\ UNCHANGED <<business_cards, last, db, ui>>

GenNext == GenerateCall

GenSpec == GenInit /\ [][GenNext]_vars

\* ------------------------- generate_unique_slug, one loop iteration at a time

\* seeds: empty, free or taken in some snapshots, no alphanumeric character,
\* and one whose base already ends in a number
LoopTexts == { <<>>, <<"a">>, <<"!">>, <<"C","a","r","d"," ","1">> }

LoopInit ==
  /\ business_cards \in Snapshots
  /\ last = NoStatement
  /\ call \in [input_text : LoopTexts, user_id_param : OwnerParams,
               uuid8 : {<<>>}, result : {NULL}, done : {FALSE}]
  /\ Idle

\* lines 39-50: base_slug, final_slug := base_slug, counter := 0
LoopBegin ==
  /\ loop.pc = "idle"
  /\ \E uuid8 \in UuidDraws(call.input_text) :
       /\ loop' = [pc |-> "probe",
                   base_slug |-> BaseSlug(call.input_text, uuid8),
                   final_slug |-> FinalSlug(BaseSlug(call.input_text, uuid8), 0),
                   counter |-> 0]
       /\ call' = [call EXCEPT !.uuid8 = uuid8]
  /\ UNCHANGED <<business_cards, last, views, tx, media, ui>>

\* lines 52-59: the WHILE condition is true, one pass through the loop body
LoopStep ==
  /\ loop.pc = "probe"
  /\ SlugExists(business_cards, loop.final_slug, call.user_id_param)
  /\ loop' = [loop EXCEPT
                !.counter = loop.counter + 1,
                !.final_slug = FinalSlug(loop.base_slug, loop.counter + 1)]
  /\ UNCHANGED <<business_cards, last, call, views, tx, media, ui>>

\* lines 52-61: the WHILE condition is not true, RETURN final_slug
LoopReturn ==
  /\ loop.pc = "probe"
  /\ ~SlugExists(business_cards, loop.final_slug, call.user_id_param)
  /\ loop' = [loop EXCEPT !.pc = "returned"]
  /\ call' = [call EXCEPT !.result = loop.final_slug, !.done = TRUE]
  /\ UNCHANGED <<business_cards, last, views, tx, media, ui>>

LoopNext == LoopBegin \/ LoopStep \/ LoopReturn

\* a call that was started runs on: PL/pgSQL executes the next statement
LoopSpec == LoopInit /\ [][LoopNext]_vars /\ WF_vars(LoopNext)

\* --------------------------------------------- public views of stored cards

ViewInit ==
  /\ business_cards \in StoredTables
  /\ last = NoStatement
  /\ call = NoCall
  /\ Idle

\* part_001 136-169: one trackCardView for the route slug of r, from the
\* lookup to the update of view_count; views counts the completed calls
ViewTrack(r) ==
  /\ r.is_published
  /\ views[r.id] < MaxViews
  /\ TrackCardView(r.slug)
  /\ views' = [views EXCEPT ![r.id] = views[r.id] + 1]
  /\ UNCHANGED <<last, call, loop, tx, media, ui>>

ViewNext == \E r \in business_cards : ViewTrack(r)

ViewSpec == ViewInit /\ [][ViewNext]_vars

\* ---------------------------------------------- INSERT statements that overlap

\* a unique constraint on business_cards.slug, if the schema has one
SlugUnique(rows) ==
  \A r1, r2 \in rows : r1.slug = r2.slug => r1.id = r2.id

ConcInit ==
  /\ business_cards = {}
  /\ last = NoStatement
  /\ call = NoCall
  /\ loop = NoLoop
  /\ views = NoViews
  /\ tx \in {[NoTx EXCEPT !.slug_unique = b] : b \in BOOLEAN}
  /\ media = NoMedia
  /\ panel = NoPanel
  /\ page = NoPage

\* the row written with a slug computed again on the table as it is at the
\* write
WrittenRowRechecked(new, rows) ==
  [new EXCEPT !.slug = generate_unique_slug(new.slug, rows, new.user_id, <<>>)]

\* line 84, RETURN NEW: the row the trigger returned is the row written,
\* whatever was committed to rows since the trigger ran
WrittenRow(new, rows) == new

\* lines 87-91: the INSERT of user u starts; the BEFORE trigger runs
\* generate_unique_slug on the rows committed so far
TxBegin(u, slug, title) ==
  /\ tx.stmt[u].pc = "none"
  /\ LET new0 == [id |-> u, user_id |-> u, slug |-> slug, title |-> title,
                  view_count |-> 0, is_published |-> TRUE]
     IN \E new \in TriggerRows("INSERT", new0, new0, business_cards) :
          tx' = [tx EXCEPT !.stmt[u] = [pc |-> "open", seed |-> slug, new |-> new]]
  /\ UNCHANGED <<business_cards, last, call, loop, views, media, ui>>

\* the row is written and the statement commits, unless a constraint fails
TxCommit(u) ==
  /\ tx.stmt[u].pc = "open"
  /\ LET rows == business_cards \cup {WrittenRow(tx.stmt[u].new, business_cards)}
         accepted == UserIdUnique(rows) /\ (tx.slug_unique => SlugUnique(rows))
     IN /\ business_cards' = IF accepted THEN rows ELSE business_cards
        /\ tx' = [tx EXCEPT !.stmt[u].pc = IF accepted THEN "committed" ELSE "failed"]
  /\ UNCHANGED <<last, call, loop, views, media, ui>>

ConcNext ==
  \/ \E u \in Users, s \in SlugInputs, t \in Titles : TxBegin(u, s, t)
  \/ \E u \in Users : TxCommit(u)

ConcSpec == ConcInit /\ [][ConcNext]_vars

\* ------------------------------------------------------ AdminPanel.handleSave

\* the AdminPanel components open at a time (browser tabs)
Panels == 1..MaxPanels

\* cardId === null
NoCard == 0

\* lines 107-124 and 146-150: the state of a panel of user u before its
\* loadUserData; outcome, statements, stored and profile record what the
\* running or last handleSave did: how its card write ended, how many card
\* writes it sent, the slug its write stored, how its profile update ended
ClosedPanel(u) ==
  [user |-> u, pc |-> "closed", cardId |-> NoCard, username |-> <<>>,
   title |-> <<>>, saving |-> FALSE, saveStatus |-> "idle", timers |-> 0,
   outcome |-> "none", statements |-> 0, stored |-> NULL, profile |-> "none"]

\* what the user types into the username and title fields
UsernameKeys == { <<>>, <<"A","l","i","c","e">> }
FormTitles == { <<>>, <<"A","l","i","c","e">> }

UsernameChars == Range(LowerSeq) \cup Range(DigitSeq) \cup {"-"}

IsUsernameChar(c) == c \in UsernameChars

\* line 501: e.target.value.toLowerCase().replace(/[^a-z0-9-]/g, '')
Sanitize(s) == SelectSeq(Lower(s), IsUsernameChar)

\* line 246: slug: formData.username || null
SlugOf(username) == IF username = <<>> THEN NULL ELSE username

\* card.slug || '', data.slug || '' (lines 179, 270)
OrEmpty(text) == IF text = NULL THEN <<>> ELSE text

SaveInit ==
  /\ business_cards = {}
  /\ last = NoStatement
  /\ call = NoCall
  /\ loop = NoLoop
  /\ views = NoViews
  /\ tx = NoTx
  /\ media = NoMedia
  /\ panel \in {[p \in Panels |-> ClosedPanel(f[p])] : f \in [Panels -> Users]}
  /\ page = NoPage

\* lines 152-219: loadUserData when the panel mounts
Mount(p) ==
  /\ panel[p].pc = "closed"
  /\ LET cards == {r \in business_cards : r.user_id = panel[p].user}
     IN panel' = [panel EXCEPT ![p] =
          IF Cardinality(cards) = 1
            THEN LET card == CHOOSE r \in cards : TRUE
                 IN [@ EXCEPT !.pc = "idle", !.cardId = card.id,
                              !.username = OrEmpty(card.slug),
                              !.title = OrEmpty(card.title)]
            ELSE [@ EXCEPT !.pc = "idle"]]
  /\ UNCHANGED <<business_cards, last, call, db, page>>

\* lines 299-304 and 501: handleInputChange('username', ...)
TypeUsername(p, keys) ==
  /\ panel[p].pc = "idle"
  /\ panel[p].username # Sanitize(keys)
  /\ panel' = [panel EXCEPT ![p].username = Sanitize(keys)]
  /\ UNCHANGED <<business_cards, last, call, db, page>>

\* lines 299-304: handleInputChange('title', ...)
TypeTitle(p, title) ==
  /\ panel[p].pc = "idle"
  /\ panel[p].title # title
  /\ panel' = [panel EXCEPT ![p].title = title]
  /\ UNCHANGED <<business_cards, last, call, db, page>>

\* lines 221-227 and 965: the Save button, disabled while saving
SaveStart(p) ==
  /\ panel[p].pc = "idle"
  /\ ~panel[p].saving
  /\ panel[p].timers < MaxTimers
  /\ panel' = [panel EXCEPT ![p] =
                 [@ EXCEPT !.pc = "write", !.saving = TRUE, !.saveStatus = "idle",
                           !.outcome = "none", !.statements = 0,
                           !.stored = NULL, !.profile = "none"]]
  /\ UNCHANGED <<business_cards, last, call, db, page>>

\* the error of the card write not thrown: the handler goes on
AfterWriteErrorIgnored(pn) ==
  [pn EXCEPT !.pc = "profile", !.outcome = "rejected",
             !.statements = pn.statements + 1]

\* lines 258, 267 and 284-291: if (error) throw error; the catch block sets
\* saveStatus and the timeout, the finally block clears saving
AfterWriteError(pn) ==
  [pn EXCEPT !.pc = "idle", !.outcome = "rejected",
             !.statements = pn.statements + 1,
             !.saveStatus = "error", !.timers = pn.timers + 1,
             !.saving = FALSE]

\* lines 267-270: setCardId(data.id), username: data.slug || ''
AfterInsert(pn, data) ==
  [pn EXCEPT !.pc = "profile", !.outcome = "ok",
             !.statements = pn.statements + 1, !.stored = data.slug,
             !.cardId = data.id, !.username = OrEmpty(data.slug)]

\* line 258 with no error: nothing of the panel's state is set
AfterUpdate(pn, written) ==
  [pn EXCEPT !.pc = "profile", !.outcome = "ok",
             !.statements = pn.statements + 1, !.stored = written.slug]

\* lines 229-271: the update of the card when cardId is set, the insert
\* otherwise; the storage layer may reject either (rejected), and rejects an
\* insert that breaks business_cards_user_id_unique
SaveWrite(p) ==
  LET pn == panel[p]
  IN /\ pn.pc = "write"
     /\ \E rejected \in BOOLEAN :
          IF rejected
            THEN /\ business_cards' = business_cards
                 /\ panel' = [panel EXCEPT ![p] = AfterWriteError(pn)]
          ELSE IF pn.cardId # NoCard
            THEN /\ \E old \in {r \in business_cards : r.id = pn.cardId} :
                      UpdateCard(old, SlugOf(pn.username), pn.title, FALSE)
                 /\ panel' = [panel EXCEPT ![p] =
                      AfterUpdate(pn, CHOOSE r \in business_cards' :
                                        r.id = pn.cardId)]
          ELSE /\ Insert(pn.user, SlugOf(pn.username), pn.title, FALSE)
               /\ panel' = [panel EXCEPT ![p] =
                    IF business_cards' = business_cards
                      THEN AfterWriteError(pn)
                      ELSE AfterInsert(pn, CHOOSE r \in business_cards' :
                                             r \notin business_cards)]
     /\ UNCHANGED <<last, call, db, page>>

\* lines 273-291: the profile update, whose result is not looked at, then
\* saveStatus 'success', the timeout, and saving cleared
SaveProfile(p) ==
  /\ panel[p].pc = "profile"
  /\ \E result \in {"ok", "failed"} :
       panel' = [panel EXCEPT ![p] =
                   [@ EXCEPT !.pc = "idle", !.profile = result,
                             !.saveStatus = "success",
                             !.timers = panel[p].timers + 1,
                             !.saving = FALSE]]
  /\ UNCHANGED <<business_cards, last, call, db, page>>

\* lines 283 and 287: setTimeout(() => setSaveStatus('idle'), 3000)
StatusTimeout(p) ==
  /\ panel[p].timers > 0
  /\ panel' = [panel EXCEPT ![p] =
                 [@ EXCEPT !.saveStatus = "idle", !.timers = panel[p].timers - 1]]
  /\ UNCHANGED <<business_cards, last, call, db, page>>

SaveNext ==
  \/ \E p \in Panels : Mount(p)
  \/ \E p \in Panels, keys \in UsernameKeys : TypeUsername(p, keys)
  \/ \E p \in Panels, title \in FormTitles : TypeTitle(p, title)
  \/ \E p \in Panels : SaveStart(p)
  \/ \E p \in Panels : SaveWrite(p)
  \/ \E p \in Panels : SaveProfile(p)
  \/ \E p \in Panels : StatusTimeout(p)

SaveSpec == SaveInit /\ [][SaveNext]_vars

\* ------------------------------------------------------------------ PublicCard

\* the slugs of the routes /c/:cardId a visitor opens: two that cards may
\* hold and one that no card holds
RouteSlugs == { Alice, Card, <<"x">> }

\* the messages setError receives (lines 90 and 130)
CardNotFound == <<"Card not found or not published">>
FailedToLoad == <<"Failed to load card">>

\* cardData === null: no row
NoRow == [id |-> 0, user_id |-> NoUser, slug |-> NULL, title |-> NULL,
          view_count |-> 0, is_published |-> FALSE]

NoLoad == [pc |-> "none", slug |-> NULL, card |-> NoRow]

\* lines 57-60: the state of the component when it mounts, with no route
\* read yet; loads are the loadCardData calls in the order they started and
\* tracks the slugs whose trackCardView has not run yet; a load
\* ends "done" when it reached setCardData and "failed" when it threw
InitialPage ==
  [route |-> NULL, cardData |-> NoRow, loading |-> TRUE, error |-> NULL,
   loads |-> [k \in 1..MaxLoads |-> NoLoad], started |-> 0, tracks |-> {}]

PublicInit ==
  /\ business_cards \in StoredTables
  /\ last = NoStatement
  /\ call = NoCall
  /\ loop = NoLoop
  /\ views = NoViews
  /\ tx = NoTx
  /\ media = NoMedia
  /\ panel = NoPanel
  /\ page = InitialPage

\* .eq('slug', cardId).eq('is_published', true), lines 81-86 and 141-146
PublishedRows(rows, cardId) ==
  {r \in rows : r.slug # NULL /\ r.slug = cardId /\ r.is_published}

\* lines 67-72 and 74-78: the route gets the slug cardId (mount, or a change
\* of the parameter); the effect starts loadCardData, which sets loading and
\* sends the lookup, and trackCardView
Navigate(cardId) ==
  /\ cardId # page.route
  /\ page.started < MaxLoads
  /\ page' = [page EXCEPT
                !.route = cardId,
                !.started = page.started + 1,
                !.loads[page.started + 1] =
                   [pc |-> "lookup", slug |-> cardId, card |-> NoRow],
                !.loading = TRUE,
                !.tracks = page.tracks \cup {cardId}]
  /\ UNCHANGED <<business_cards, last, call, db, panel>>

\* the lookup returning with no finally block behind the catch
LoadLookupNoFinally(k) ==
  /\ page.loads[k].pc = "lookup"
  /\ LET rows == PublishedRows(business_cards, page.loads[k].slug)
     IN \E failed \in BOOLEAN :
          page' = IF ~failed /\ Cardinality(rows) = 1
                    THEN [page EXCEPT !.loads[k].pc = "rest",
                                      !.loads[k].card = CHOOSE r \in rows : TRUE]
                    ELSE [page EXCEPT !.loads[k].pc = "failed",
                                      !.error = CardNotFound]
  /\ UNCHANGED <<business_cards, last, call, db, panel>>

\* lines 80-90 and 128-133: the lookup of load k returns; .single() gives an
\* error unless exactly one row matches, and the request itself may fail
LoadLookup(k) ==
  /\ page.loads[k].pc = "lookup"
  /\ LET rows == PublishedRows(business_cards, page.loads[k].slug)
     IN \E failed \in BOOLEAN :
          page' = IF ~failed /\ Cardinality(rows) = 1
                    THEN [page EXCEPT !.loads[k].pc = "rest",
                                      !.loads[k].card = CHOOSE r \in rows : TRUE]
                    ELSE [page EXCEPT !.loads[k].pc = "failed",
                                      !.error = CardNotFound,
                                      !.loading = FALSE]
  /\ UNCHANGED <<business_cards, last, call, db, panel>>

\* lines 92-133: the queries for links, media and reviews return and
\* setCardData runs, or one of them throws; then the finally block
LoadRest(k) ==
  /\ page.loads[k].pc = "rest"
  /\ \E thrown \in BOOLEAN :
       page' = IF thrown
                 THEN [page EXCEPT !.loads[k].pc = "failed",
                                   !.error = FailedToLoad,
                                   !.loading = FALSE]
                 ELSE [page EXCEPT !.loads[k].pc = "done",
                                   !.cardData = page.loads[k].card,
                                   !.loading = FALSE]
  /\ UNCHANGED <<business_cards, last, call, db, panel>>

\* lines 136-169: the trackCardView started for cardId runs
PageTrack(cardId) ==
  /\ cardId \in page.tracks
  /\ page' = [page EXCEPT !.tracks = page.tracks \ {cardId}]
  /\ IF Cardinality(PublishedRows(business_cards, cardId)) = 1
       THEN TrackCardView(cardId)
       ELSE UNCHANGED business_cards
  /\ UNCHANGED <<last, call, db, panel>>

\* lines 239-269: what the component renders
PageView ==
  IF page.loading THEN "loading"
  ELSE IF page.error # NULL \/ page.cardData = NoRow THEN "not_found"
  ELSE "card"

PublicNext ==
  \/ \E cardId \in RouteSlugs : Navigate(cardId)
  \/ \E k \in 1..MaxLoads : LoadLookup(k)
  \/ \E k \in 1..MaxLoads : LoadRest(k)
  \/ \E cardId \in RouteSlugs : PageTrack(cardId)

PublicSpec == PublicInit /\ [][PublicNext]_vars

\* every storage call of a load returns: a load waiting for a response is
\* resumed in the end
PublicFairness ==
  \A k \in 1..MaxLoads : WF_vars(LoadLookup(k)) /\ WF_vars(LoadRest(k))

PublicLiveSpec == PublicInit /\ [][PublicNext]_vars /\ PublicFairness

\* ----------------------------------------------------------------- MediaUpload

\* the slots of the handler calls that can be waiting on storage at a time
Ops == 1..MaxOps

\* the ids gen_random_uuid() gives to the rows of media_items
ItemIds == 1..MaxItems

\* titles: file.name.split('.')[0] (line 117), 'Video Link' (line 165) and
\* the text typed into the title field of an item (line 422)
FileTitle == <<"f">>
VideoTitle == <<"V","i","d","e","o"," ","L","i","n","k">>
TypedTitle == <<"n">>

\* no handler call in the slot
NoOp == [pc |-> "none", mediaItems |-> <<>>, newItems |-> <<>>, files |-> 0,
         id |-> 0, title |-> NULL]

\* lines 27-36: a MediaUpload mounted for a card with no media yet.
\* media_items holds the card's rows, mediaItems is the parent's state handed
\* down as the prop, ops the handler calls in flight, each with the
\* mediaItems its closure captured; nextId is the next fresh id, overlapped
\* tells that a handler started while another was in flight, failed that a
\* storage call reported an error or threw
MountedMedia ==
  [media_items |-> {}, mediaItems |-> <<>>, loading |-> TRUE,
   uploading |-> FALSE, ops |-> [o \in Ops |-> NoOp], nextId |-> 1,
   overlapped |-> FALSE, failed |-> FALSE]

MediaInit ==
  /\ business_cards = {}
  /\ last = NoStatement
  /\ call = NoCall
  /\ loop = NoLoop
  /\ views = NoViews
  /\ tx = NoTx
  /\ panel = NoPanel
  /\ page = NoPage
  /\ media = MountedMedia

\* the ids of the items of a list
ListIds(items) == {items[i].id : i \in DOMAIN items}

\* lines 55-62 and 133-139: the MediaItem made from a row
ItemOf(row) == [id |-> row.id, title |-> row.title]

\* .order('display_order', { ascending: true }), line 48: the rows as lists
\* in ascending display_order, rows of equal display_order in any order
OrderedLists(rows) ==
  {s \in [1..Cardinality(rows) -> rows] :
     /\ \A i, j \in DOMAIN s : i # j => s[i] # s[j]
     /\ \A i, j \in DOMAIN s : i < j => s[i].display_order <= s[j].display_order}

\* some handler call is waiting on storage
Busy == \E o \in Ops : media.ops[o].pc # "none"

\* a handler starts in slot o with the mediaItems of the last render
Started(o, op) ==
  [media EXCEPT !.ops[o] = op, !.overlapped = media.overlapped \/ Busy]

\* lines 38-70: loadMediaItems returns; on an error the list is left alone
LoadMediaItems ==
  /\ media.loading
  /\ \E error \in BOOLEAN :
       IF error
         THEN media' = [media EXCEPT !.loading = FALSE, !.failed = TRUE]
         ELSE \E s \in OrderedLists(media.media_items) :
                media' = [media EXCEPT
                            !.loading = FALSE,
                            !.mediaItems = [i \in DOMAIN s |-> ItemOf(s[i])]]
  /\ UNCHANGED <<business_cards, last, call, loop, views, tx, ui>>

\* lines 93-98, 245 and 304: handleFileSelect with n files, from a drop or
\* from the file input; setUploading(true)
FilesStart(o, n) ==
  /\ ~media.loading
  /\ media.ops[o].pc = "none"
  /\ media.nextId <= MaxItems
  /\ media' = [Started(o, [NoOp EXCEPT !.pc = "upload",
                                       !.mediaItems = media.mediaItems,
                                       !.files = n])
                 EXCEPT !.uploading = TRUE]
  /\ UNCHANGED <<business_cards, last, call, loop, views, tx, ui>>

\* lines 72-91, 109 and 145-150: uploadFile returns the public URL, or the
\* storage reports an error, which is thrown to the catch block of
\* handleFileSelect: onMediaChange is not reached
FilesUpload(o) ==
  /\ media.ops[o].pc = "upload"
  /\ \E thrown \in BOOLEAN :
       media' = IF thrown
                  THEN [media EXCEPT !.ops[o] = NoOp, !.uploading = FALSE,
                                     !.failed = TRUE]
                  ELSE [media EXCEPT !.ops[o].pc = "insert"]
  /\ UNCHANGED <<business_cards, last, call, loop, views, tx, ui>>

\* lines 111-150: the insert of one file's row returns; on an error the
\* loop goes on to the next file; after the last file
\* onMediaChange([...mediaItems, ...newItems]) and setUploading(false)
FilesInserted(m, o, error) ==
  LET op == m.ops[o]
      row == [id |-> m.nextId, title |-> FileTitle,
              display_order |-> Len(op.mediaItems) + Len(op.newItems)]
      newItems == IF error THEN op.newItems
                  ELSE Append(op.newItems, ItemOf(row))
      stored == IF error THEN [m EXCEPT !.failed = TRUE]
                ELSE [m EXCEPT !.media_items = m.media_items \cup {row},
                               !.nextId = m.nextId + 1]
  IN IF op.files > 1
       THEN [stored EXCEPT !.ops[o].pc = "upload",
                           !.ops[o].newItems = newItems,
                           !.ops[o].files = op.files - 1]
       ELSE [stored EXCEPT !.ops[o] = NoOp, !.uploading = FALSE,
                           !.mediaItems = op.mediaItems \o newItems]

FilesInsert(o) ==
  /\ media.ops[o].pc = "insert"
  /\ \E error \in BOOLEAN :
       /\ ~error => media.nextId <= MaxItems
       /\ media' = FilesInserted(media, o, error)
  /\ UNCHANGED <<business_cards, last, call, loop, views, tx, ui>>

\* lines 153-158 and 342-343: handleVideoUrlAdd, its button disabled while
\* uploading; setUploading(true)
VideoStart(o) ==
  /\ ~media.loading
  /\ ~media.uploading
  /\ media.ops[o].pc = "none"
  /\ media.nextId <= MaxItems
  /\ media' = [Started(o, [NoOp EXCEPT !.pc = "video",
                                       !.mediaItems = media.mediaItems])
                 EXCEPT !.uploading = TRUE]
  /\ UNCHANGED <<business_cards, last, call, loop, views, tx, ui>>

\* lines 159-195: the insert of the video row returns; on an error the
\* handler returns before onMediaChange; setUploading(false) either way
VideoInserted(m, o, error) ==
  LET op == m.ops[o]
      row == [id |-> m.nextId, title |-> VideoTitle,
              display_order |-> Len(op.mediaItems)]
  IN IF error
       THEN [m EXCEPT !.ops[o] = NoOp, !.uploading = FALSE, !.failed = TRUE]
       ELSE [m EXCEPT !.ops[o] = NoOp, !.uploading = FALSE,
                      !.media_items = m.media_items \cup {row},
                      !.nextId = m.nextId + 1,
                      !.mediaItems = Append(op.mediaItems, ItemOf(row))]

VideoInsert(o) ==
  /\ media.ops[o].pc = "video"
  /\ \E error \in BOOLEAN :
       /\ ~error => media.nextId <= MaxItems
       /\ media' = VideoInserted(media, o, error)
  /\ UNCHANGED <<business_cards, last, call, loop, views, tx, ui>>

\* lines 198-204 and 408: removeMediaItem(item.id) from the button of a
\* listed item
RemoveStart(o, id) ==
  /\ ~media.loading
  /\ media.ops[o].pc = "none"
  /\ id \in ListIds(media.mediaItems)
  /\ media' = Started(o, [NoOp EXCEPT !.pc = "delete",
                                      !.mediaItems = media.mediaItems,
                                      !.id = id])
  /\ UNCHANGED <<business_cards, last, call, loop, views, tx, ui>>

\* lines 201-217: the delete returns; on an error the handler returns, else
\* onMediaChange(mediaItems.filter(item => item.id !== id))
Removed(m, o, error) ==
  LET op == m.ops[o]
      Keeps(item) == item.id # op.id
  IN IF error
       THEN [m EXCEPT !.ops[o] = NoOp, !.failed = TRUE]
       ELSE [m EXCEPT !.ops[o] = NoOp,
                      !.media_items = {r \in m.media_items : r.id # op.id},
                      !.mediaItems = SelectSeq(op.mediaItems, Keeps)]

RemoveDelete(o) ==
  /\ media.ops[o].pc = "delete"
  /\ \E error \in BOOLEAN : media' = Removed(media, o, error)
  /\ UNCHANGED <<business_cards, last, call, loop, views, tx, ui>>

\* lines 220-225 and 422: updateMediaTitle(item.id, e.target.value) from the
\* title field of a listed item
TitleStart(o, id) ==
  /\ ~media.loading
  /\ media.ops[o].pc = "none"
  /\ \E i \in DOMAIN media.mediaItems :
       media.mediaItems[i].id = id /\ media.mediaItems[i].title # TypedTitle
  /\ media' = Started(o, [NoOp EXCEPT !.pc = "title",
                                      !.mediaItems = media.mediaItems,
                                      !.id = id, !.title = TypedTitle])
  /\ UNCHANGED <<business_cards, last, call, loop, views, tx, ui>>

\* lines 222-239: the update returns; on an error the handler returns, else
\* onMediaChange with the title of that item replaced
Retitled(m, o, error) ==
  LET op == m.ops[o]
  IN IF error
       THEN [m EXCEPT !.ops[o] = NoOp, !.failed = TRUE]
       ELSE [m EXCEPT !.ops[o] = NoOp,
                      !.media_items =
                         {IF r.id = op.id THEN [r EXCEPT !.title = op.title]
                                          ELSE r : r \in m.media_items},
                      !.mediaItems =
                         [i \in DOMAIN op.mediaItems |->
                            IF op.mediaItems[i].id = op.id
                              THEN [op.mediaItems[i] EXCEPT !.title = op.title]
                              ELSE op.mediaItems[i]]]

TitleUpdate(o) ==
  /\ media.ops[o].pc = "title"
  /\ \E error \in BOOLEAN : media' = Retitled(media, o, error)
  /\ UNCHANGED <<business_cards, last, call, loop, views, tx, ui>>

MediaNext ==
  \/ LoadMediaItems
  \/ \E o \in Ops, n \in 1..MaxFiles : FilesStart(o, n)
  \/ \E o \in Ops : FilesUpload(o)
  \/ \E o \in Ops : FilesInsert(o)
  \/ \E o \in Ops : VideoStart(o)
  \/ \E o \in Ops : VideoInsert(o)
  \/ \E o \in Ops, id \in ItemIds : RemoveStart(o, id)
  \/ \E o \in Ops : RemoveDelete(o)
  \/ \E o \in Ops, id \in ItemIds : TitleStart(o, id)
  \/ \E o \in Ops : TitleUpdate(o)

MediaSpec == MediaInit /\ [][MediaNext]_vars

\* ------------------------------ one statement on a table older than the trigger

\* slugs of rows last written before the trigger fired on UPDATE: handleSave
\* sends slug NULL for a blank username (line 246), SQL may send ''
LegacySlugs == { NULL, <<>>, Alice }

\* tables of such rows, one row per user at most
LegacyTables ==
  { { StoredRow(u, f[u], TRUE) : u \in S } :
      S \in SUBSET Users, f \in [Users -> LegacySlugs] }

LegacyInit ==
  /\ business_cards \in LegacyTables
  /\ last = NoStatement
  /\ call = NoCall
  /\ Idle

LegacyNext == WriteNext

LegacySpec == LegacyInit /\ [][LegacyNext]_vars

\* ------------------------------------------------------------- properties

RowOf(rows, user_id) == CHOOSE r \in rows : r.user_id = user_id

HasRow(rows, user_id) == \E r \in rows : r.user_id = user_id

\* a conflict as the specification words it: a row with exactly that slug
\* whose owner differs from the excluded owner, any row when none is excluded
Conflicts(rows, slug, excluded_owner) ==
  \E r \in rows :
    r.slug = slug /\ (excluded_owner = NoUser \/ r.user_id # excluded_owner)

DecimalDigits(n) ==
  IF n < 10 THEN <<DigitSeq[n + 1]>>
  ELSE <<DigitSeq[(n \div 10) + 1], DigitSeq[(n % 10) + 1]>>

\* the k-th element of the sequence B, B-1, B-2, ...
Candidate(B, k) == IF k = 0 THEN B ELSE B \o <<"-">> \o DecimalDigits(k)

\* s is the first element of B, B-1, B-2, ... that does not conflict
FirstFree(rows, B, excluded_owner, s) ==
  \E k \in 0..Cardinality(rows) :
    /\ s = Candidate(B, k)
    /\ ~Conflicts(rows, s, excluded_owner)
    /\ \A j \in 0..(k - 1) : Conflicts(rows, Candidate(B, j), excluded_owner)

\* C1: with serialized writes from the empty table, no two distinct rows of
\* business_cards hold the same slug
C1_SlugUnique ==
  \A r1, r2 \in business_cards : r1.slug = r2.slug => r1 = r2

\* two users claimed the same slug and the later one was moved to the suffix
C1_Witness ==
  \E r1, r2 \in business_cards :
    /\ r1.user_id # r2.user_id
    /\ r1.slug = Alice
    /\ r2.slug = Alice1

\* C2: for a seed with a nonempty normalized base B the generator returns the
\* first non-conflicting element of B, B-1, B-2, ..., whatever uuid is drawn
C2_FirstFreeCandidate ==
  (call.done /\ Normalize(call.input_text) # <<>>) =>
    /\ FirstFree(business_cards, Normalize(call.input_text),
                 call.user_id_param, call.result)
    /\ \A uuid8 \in Uuid8 :
         generate_unique_slug(call.input_text, business_cards,
                              call.user_id_param, uuid8) = call.result

\* B and B-1 both conflict and the call returned B-2
C2_Witness ==
  /\ call.done
  /\ Normalize(call.input_text) = <<"a">>
  /\ Conflicts(business_cards, <<"a">>, call.user_id_param)
  /\ Conflicts(business_cards, A1, call.user_id_param)
  /\ call.result = <<"a","-","2">>

\* the case of C3: a row of another user holds "card-1", none holds
\* "card-1-1", and the seed of a user who owns no row normalizes to "card-1"
C3_Case ==
  /\ call.done
  /\ call.user_id_param # NoUser
  /\ ~HasRow(business_cards, call.user_id_param)
  /\ Normalize(call.input_text) = Card1
  /\ \E r \in business_cards : r.slug = Card1
  /\ ~\E r \in business_cards : r.slug = Card11

\* C3 as stated: in that case the generator returns "card-2"
C3_ReturnsCard2 ==
  C3_Case => call.result = Card \o <<"-","2">>

\* C3 amended: in that case the generator returns "card-1-1", the base with
\* -1 appended
C3_ReturnsCard11 ==
  C3_Case => call.result = Card11

C3_Witness ==
  C3_Case /\ call.input_text # Card1 /\ call.result = Card11

\* C4: the base slug is returned unsuffixed exactly when no row holds it
\* with an owner other than the excluded one; rows of the excluded owner
\* never block it, and with no excluded owner every row holding it does
C4_ConflictScope ==
  call.done =>
    LET B == BaseSlug(call.input_text, call.uuid8)
        holders == {r \in business_cards : r.slug = B}
    IN /\ (call.result = B) <=>
            ~\E r \in holders :
               call.user_id_param = NoUser \/ r.user_id # call.user_id_param
       /\ (call.user_id_param # NoUser
             /\ \A r \in holders : r.user_id = call.user_id_param)
            => call.result = B
       /\ (call.user_id_param = NoUser /\ holders # {}) => call.result # B
       /\ ~Conflicts(business_cards, call.result, call.user_id_param)

\* the excluded owner's own row holds the base and the base is returned
C4_Witness ==
  /\ call.done
  /\ call.user_id_param # NoUser
  /\ \E r \in business_cards :
       r.user_id = call.user_id_param /\ r.slug = call.result
  /\ call.result = Normalize(call.input_text)

\* the case of C5: user V supplies "alice" on an INSERT or on an UPDATE that
\* changes V's slug, a row of another user holds "alice" and none holds
\* "alice-1"
C5_Case ==
  /\ last.op \in {"insert", "update"}
  /\ last.slug = Alice
  /\ \E r \in last.pre : r.user_id # last.user_id /\ r.slug = Alice
  /\ ~\E r \in last.pre : r.user_id # last.user_id /\ r.slug = Alice1
  /\ last.op = "update" => RowOf(last.pre, last.user_id).slug # Alice

\* C5: V's row is written with "alice-1" and the rows of the other users,
\* the one holding "alice" among them, are as they were
C5_SecondClaimGetsSuffix ==
  C5_Case =>
    /\ RowOf(business_cards, last.user_id).slug = Alice1
    /\ \A r \in last.pre : r.user_id # last.user_id => r \in business_cards

C5_Witness ==
  /\ C5_Case
  /\ last.op = "insert"
  /\ \E r1, r2 \in business_cards :
       /\ r1.user_id = last.user_id /\ r1.slug = Alice1
       /\ r2.user_id # last.user_id /\ r2.slug = Alice

\* the case of C6: an UPDATE that resubmits the non-empty slug stored on the
\* row it updates
C6_Case ==
  /\ last.op = "update"
  /\ last.slug \notin {NULL, <<>>}
  /\ RowOf(last.pre, last.user_id).slug = last.slug

\* C6: the stored slug is exactly the old value, no suffix appended
C6_ResubmittedSlugKept ==
  C6_Case => RowOf(business_cards, last.user_id).slug = last.slug

\* "alice" over "alice" while another row holds "alice" too: a call of the
\* generator would have appended a suffix
C6_Witness ==
  /\ C6_Case
  /\ last.slug = Alice
  /\ \E r \in last.pre : r.user_id # last.user_id /\ r.slug = Alice
  /\ RowOf(business_cards, last.user_id).slug = Alice

\* the case of C7: an UPDATE whose new row has the slug of the old row, from
\* trackCardView (view_count) or from a save changing title or is_published
C7_Case ==
  \/ last.op = "view"
  \/ /\ last.op = "update"
     /\ RowOf(last.pre, last.user_id).slug = last.slug

\* C7: every row holds the slug it held before the statement
C7_NonSlugUpdateKeepsSlug ==
  C7_Case =>
    \A r \in last.pre :
      \E r2 \in business_cards : r2.id = r.id /\ r2.slug = r.slug

\* a counted view of a row whose slug another row holds as well
C7_Witness ==
  /\ last.op = "view"
  /\ \E r1, r2 \in business_cards :
       /\ r1.user_id = last.user_id /\ r1.view_count = 1
       /\ r2.user_id # last.user_id /\ r2.slug = r1.slug

\* the characters a slug may hold
SlugChars == Range(LowerSeq) \cup Range(DigitSeq) \cup {"-"}

\* C8: for every input text the generator returns a nonempty slug over
\* [a-z0-9-] with no leading and no trailing hyphen
C8_WellFormedResult ==
  call.done =>
    /\ call.result # NULL
    /\ Len(call.result) > 0
    /\ \A i \in DOMAIN call.result : call.result[i] \in SlugChars
    /\ call.result[1] # "-"
    /\ call.result[Len(call.result)] # "-"

\* an input of non-alphanumeric characters only got the random base
C8_Witness ==
  /\ call.done
  /\ Len(call.input_text) > 1
  /\ \A i \in DOMAIN call.input_text : ~IsAlnum(call.input_text[i])
  /\ SubSeq(call.result, 1, 5) = <<"c","a","r","d","-">>
  /\ Len(call.result) = 13

\* C9: normalization is idempotent on every input text, and a slug the
\* generator returns normalizes to itself
C9_NormalizeIdempotent ==
  /\ Normalize(Normalize(call.input_text)) = Normalize(call.input_text)
  /\ call.done => Normalize(call.result) = call.result

\* an input changed by normalization whose result carries a -N suffix
C9_Witness ==
  /\ call.done
  /\ Normalize(call.input_text) # call.input_text
  /\ Normalize(call.input_text) # <<>>
  /\ call.result = Normalize(call.input_text) \o <<"-","1">>

\* C10: an INSERT with an empty slug stores the first free of B, B-1, ...
\* where B is the word "card" when the title is NULL or the empty string and
\* the normalized title otherwise
C10_EmptyTitleUsesCard ==
  (last.op = "insert" /\ last.slug \in {NULL, <<>>}) =>
    FirstFree(last.pre,
              IF last.title \in {NULL, <<>>} THEN Card ELSE Normalize(last.title),
              last.user_id,
              RowOf(business_cards, last.user_id).slug)

\* the case of C12: an accepted INSERT that supplies a non-empty slug
C12_Case ==
  /\ last.op = "insert"
  /\ last.slug \notin {NULL, <<>>}

\* C12: the slug stored by an INSERT with a non-empty provided slug is the
\* first free candidate of the normalized seed, other owners' rows counting as
\* conflicts; it is the raw provided text only when that text is normalized
\* and free
C12_InsertStoresGeneratorOutput ==
  C12_Case =>
    LET s == RowOf(business_cards, last.user_id).slug
    IN /\ FirstFree(last.pre, Normalize(last.slug), last.user_id, s)
       /\ s = last.slug =>
            /\ Normalize(last.slug) = last.slug
            /\ ~Conflicts(last.pre, last.slug, last.user_id)

\* "Alice" inserted while another user holds "alice": "alice-1" is stored
C12_Witness ==
  /\ C12_Case
  /\ last.slug = <<"A","l","i","c","e">>
  /\ \E r \in last.pre : r.user_id # last.user_id /\ r.slug = Alice
  /\ RowOf(business_cards, last.user_id).slug = Alice1

\* a slug in normalized form: nonempty, over [a-z0-9-], no hyphen first or
\* last, no two hyphens in a row
NormalizedForm(s) ==
  /\ s # NULL
  /\ Len(s) > 0
  /\ \A i \in DOMAIN s : s[i] \in SlugChars
  /\ s[1] # "-"
  /\ s[Len(s)] # "-"
  /\ \A i \in 1..(Len(s) - 1) : ~(s[i] = "-" /\ s[i + 1] = "-")

\* C20: from the empty table, after any sequence of INSERTs and UPDATEs that
\* went through the trigger, every stored slug is non-NULL, nonempty and in
\* normalized form
C20_StoredSlugsNormalized ==
  \A r \in business_cards : NormalizedForm(r.slug)

\* two users saved the title "Al--e" with a blank slug: the run of hyphens
\* was collapsed and the later row got the suffix
C20_Witness ==
  \E r1, r2 \in business_cards :
    /\ r1.slug = <<"a","l","-","e">>
    /\ r2.slug = <<"a","l","-","e","-","1">>
    /\ r2.title = <<"A","l","-","-","e">>

\* the case of C11: an UPDATE that submits a non-empty slug other than the
\* slug stored on the row, which may be NULL or ''
C11_Case ==
  /\ last.op = "update"
  /\ last.slug \notin {NULL, <<>>}
  /\ RowOf(last.pre, last.user_id).slug # last.slug

\* C11: the row is written with the generator's output for the submitted
\* slug: the first free candidate of its normalized form, which is in
\* normalized form and is held by no row of another owner
C11_ChangedSlugRegenerated ==
  C11_Case =>
    LET s == RowOf(business_cards, last.user_id).slug
    IN /\ FirstFree(last.pre, Normalize(last.slug), last.user_id, s)
       /\ NormalizedForm(s)
       /\ ~Conflicts(business_cards, s, last.user_id)

\* C18: on every table, for every seed and every excluded owner, the counter
\* of the probe loop never exceeds the number of rows of the table, and the
\* call returns
C18_ProbeLoopTerminates ==
  /\ [](loop.counter <= Cardinality(business_cards))
  /\ <>(loop.pc = "returned")

\* a call that returned after as many increments as the table has rows, with
\* the value the function computes
C18_Witness ==
  /\ loop.pc = "returned"
  /\ business_cards # {}
  /\ loop.counter = Cardinality(business_cards)
  /\ call.result = generate_unique_slug(call.input_text, business_cards,
                                        call.user_id_param, call.uuid8)

\* C19: a card whose view_count started at 0 holds, after k completed
\* trackCardView calls for it, the view_count 0 + k
C19_ViewCountCounts ==
  \A r \in business_cards : r.view_count = 0 + views[r.id]

\* the case of C13: the INSERTs of two different users with the same seed
\* both got the same candidate from the trigger, each before the other
\* committed, and both statements have ended
C13_Case(u, v) ==
  /\ u # v
  /\ tx.stmt[u].pc \in {"committed", "failed"}
  /\ tx.stmt[v].pc \in {"committed", "failed"}
  /\ tx.stmt[u].seed = tx.stmt[v].seed
  /\ tx.stmt[u].new.slug = tx.stmt[v].new.slug

\* C13: after such a race, with a unique constraint on slug one of the two
\* statements failed with the table holding that slug once, and without one
\* both rows are stored with the same slug
C13_RaceOutcome ==
  \A u, v \in Users :
    C13_Case(u, v) =>
      IF tx.slug_unique
        THEN /\ "failed" \in {tx.stmt[u].pc, tx.stmt[v].pc}
             /\ Cardinality({r \in business_cards :
                               r.slug = tx.stmt[u].new.slug}) = 1
        ELSE \E r1, r2 \in business_cards :
               /\ r1.user_id = u
               /\ r2.user_id = v
               /\ r1.slug = tx.stmt[u].new.slug
               /\ r2.slug = r1.slug

\* two users inserted "alice" at the same time and no constraint stopped the
\* second row
C13_Witness ==
  /\ ~tx.slug_unique
  /\ C13_Case(1, 2)
  /\ tx.stmt[1].seed = Alice
  /\ \E r1, r2 \in business_cards : r1 # r2 /\ r1.slug = Alice /\ r2.slug = Alice

\* the step of panel p in which the card write of its handleSave returns
WriteReturns(p) == panel[p].pc = "write" /\ panel'[p].pc # "write"

\* C14: when the card write of a handleSave is rejected, the call is over
\* with saveStatus 'error' and saving cleared, after that one statement only,
\* with cardId as it was and no profile update
C14_RejectedWriteSurfaced ==
  [][\A p \in Panels :
       (WriteReturns(p) /\ panel'[p].outcome = "rejected") =>
         /\ panel'[p].pc = "idle"
         /\ panel'[p].saveStatus = "error"
         /\ ~panel'[p].saving
         /\ panel'[p].statements = 1
         /\ panel'[p].cardId = panel[p].cardId
         /\ panel'[p].profile = "none"]_vars

\* a first save whose insert was rejected: cardId is still null, the status
\* shows the error and no profile update ran
C14_Witness ==
  \E p \in Panels :
    /\ panel[p].pc = "idle"
    /\ panel[p].outcome = "rejected"
    /\ panel[p].saveStatus = "error"
    /\ panel[p].cardId = NoCard
    /\ panel[p].statements = 1
    /\ panel[p].profile = "none"

\* C15: whatever handleSave calls of whatever users interleave, the table
\* holds at most one row per user_id, and the insert of a handleSave whose
\* user owns a card already is rejected and leaves the table as it was
C15_OneCardPerUser ==
  [][/\ \A r1, r2 \in business_cards' : r1.user_id = r2.user_id => r1 = r2
     /\ \A p \in Panels :
          (/\ WriteReturns(p)
           /\ panel[p].cardId = NoCard
           /\ HasRow(business_cards, panel[p].user)) =>
            /\ panel'[p].outcome = "rejected"
            /\ business_cards' = business_cards]_vars

\* two panels of one user both saved a new card: one insert was stored, the
\* other was rejected and its panel still has no cardId
C15_Witness ==
  \E p, q \in Panels :
    /\ p # q
    /\ panel[p].user = panel[q].user
    /\ panel[p].cardId # NoCard
    /\ panel[q].cardId = NoCard
    /\ panel[q].outcome = "rejected"
    /\ panel[q].saveStatus = "error"
    /\ Cardinality({r \in business_cards : r.user_id = panel[p].user}) = 1

\* C17: at the end of every handleSave that succeeds, on the insert path and
\* on the update path, the username the panel shows in /c/{username} is the
\* slug its write stored on the user's row once the trigger had resolved it
C17_DisplayedUrlIsStoredSlug ==
  [][\A p \in Panels :
       (panel[p].pc = "profile" /\ panel'[p].saveStatus = "success") =>
         panel'[p].username = panel'[p].stored]_vars

\* C16: the card view is rendered only with the data of a row that has the
\* slug of the current route and was published when the lookup returned it;
\* when every load has ended and the lookup for the current route returned
\* no row, the 'Card Not Found' view is rendered
C16_RendersOnlyPublishedMatch ==
  /\ PageView = "card" =>
       /\ page.cardData.slug = page.route
       /\ page.cardData.is_published
  /\ (/\ page.started > 0
      /\ \A k \in 1..MaxLoads : page.loads[k].pc \in {"none", "done", "failed"}
      /\ page.loads[page.started].card = NoRow) => PageView = "not_found"

\* an UPDATE that submitted an empty slug, NULL or ''
C21_Case == last.op = "update" /\ last.slug \in {NULL, <<>>}

\* the seed the trigger takes for the statement in last
C21_Seed == CoalesceTitle(last.title)

\* the statement in last wrote its row: the table has the rows it had
C21_Written ==
  /\ HasRow(last.pre, last.user_id)
  /\ HasRow(business_cards, last.user_id)
  /\ {r.id : r \in business_cards} = {r.id : r \in last.pre}

\* the slug stored by the statement in last is non-empty and made from the
\* title, the owner's row excluded from the conflict scan
C21_Regenerated(new) ==
  /\ new.slug # NULL
  /\ new.slug # <<>>
  /\ \E uuid8 \in Uuid8 :
       new.slug = generate_unique_slug(C21_Seed, last.pre, last.user_id, uuid8)
  /\ Normalize(C21_Seed) # <<>> =>
       FirstFree(last.pre, Normalize(C21_Seed), last.user_id, new.slug)

\* C21 as stated: an UPDATE with an empty slug writes the row with a
\* non-empty slug regenerated from the title, the owner's own row excluded,
\* and whenever the title normalizes to the owner's current slug the slug
\* stays as it was
C21_EmptySlugUpdateKeepsOwnSlug ==
  C21_Case =>
    /\ C21_Written
    /\ C21_Regenerated(RowOf(business_cards, last.user_id))
    /\ Normalize(C21_Seed) = RowOf(last.pre, last.user_id).slug =>
         RowOf(business_cards, last.user_id).slug =
           RowOf(last.pre, last.user_id).slug

\* C21 amended: an UPDATE with an empty slug writes the row with a non-empty
\* slug regenerated from the title, the owner's own row excluded; when the
\* title normalizes to the owner's current slug and no other owner's row
\* holds that slug, the slug stays as it was
C21_EmptySlugUpdateRegenerates ==
  C21_Case =>
    /\ C21_Written
    /\ C21_Regenerated(RowOf(business_cards, last.user_id))
    /\ (/\ Normalize(C21_Seed) = RowOf(last.pre, last.user_id).slug
        /\ ~Conflicts(last.pre, Normalize(C21_Seed), last.user_id)) =>
         RowOf(business_cards, last.user_id).slug =
           RowOf(last.pre, last.user_id).slug

\* the owner of 'alice' saved with a blank username and the title 'Alice'
\* while another card existed, and still holds 'alice'
C21_Witness ==
  /\ C21_Case
  /\ last.slug = NULL
  /\ Normalize(C21_Seed) = Alice
  /\ Cardinality(last.pre) = 2
  /\ RowOf(last.pre, last.user_id).slug = Alice
  /\ RowOf(business_cards, last.user_id).slug = Alice

\* the loadCardData started last, for the route slug of now
LatestLoad == page.loads[page.started]

\* loading is false and the load started last found a published card and
\* ran to setCardData
C22_Case ==
  /\ page.started > 0
  /\ ~page.loading
  /\ LatestLoad.pc = "done"
  /\ LatestLoad.slug = page.route
  /\ LatestLoad.card # NoRow

\* C22: whenever loading is false and the loadCardData started last found a
\* published card for the route slug, the card view is rendered, not the
\* 'Card Not Found' view, whatever became of an earlier load
C22_LatestLoadShown == C22_Case => PageView = "card"


\* the route slug changed at least once and every loadCardData started has
\* run to setCardData
C23_Case ==
  /\ page.started >= 2
  /\ \A k \in 1..page.started : page.loads[k].pc = "done"

\* C23: once all the loads started by changes of the route slug have
\* completed, cardData holds the card whose slug is the route slug, in
\* whatever order the lookups responded
C23_CardDataFollowsRoute ==
  C23_Case =>
    /\ page.cardData = LatestLoad.card
    /\ page.cardData.slug = page.route

\* load k waits for a storage call
InFlight(k) == page.loads[k].pc \in {"lookup", "rest"}

\* load k ran its finally block
Completed(k) == page.loads[k].pc \in {"done", "failed"}

\* the step in which a load completes leaves loading false
C24_CompletionClearsLoading ==
  \A k \in 1..MaxLoads :
    (InFlight(k) /\ Completed(k)') => ~page'.loading

\* C24: when the storage calls return, every started loadCardData completes
\* and sets loading to false as it does, whether the lookup found the card,
\* returned an error or a later query threw; with no load left in flight
\* the loading view is not rendered
C24_LoadingEnds ==
  /\ [][C24_CompletionClearsLoading]_vars
  /\ \A k \in 1..MaxLoads : InFlight(k) ~> Completed(k)
  /\ []((page.started > 0 /\ \A k \in 1..page.started : Completed(k)) =>
          PageView # "loading")

\* two loads have completed, the first on a query that threw and the second
\* with its card, and the loading view is gone
C24_Witness ==
  /\ page.started = 2
  /\ page.loads[1].pc = "failed"
  /\ page.loads[2].pc = "done"
  /\ page.cardData = page.loads[2].card
  /\ page.error = FailedToLoad
  /\ ~page.loading

\* saving is true while the handleSave of panel p runs and false otherwise
C25_SavingBrackets(p) ==
  /\ panel[p].pc \in {"write", "profile"} => panel[p].saving
  /\ panel[p].pc \in {"closed", "idle"} => ~panel[p].saving

\* C25: in every panel saving is true exactly while handleSave runs, and
\* saveStatus is 'success' only when the card write of that handleSave
\* returned no error and its profile update succeeded as well
C25_SuccessMeansBothWritten ==
  \A p \in Panels :
    /\ C25_SavingBrackets(p)
    /\ panel[p].saveStatus = "success" =>
         (panel[p].outcome = "ok" /\ panel[p].profile = "ok")

\* the ids of the card's rows in media_items
StoredIds == {r.id : r \in media.media_items}

\* the list is loaded and no handler call is waiting on storage
MediaQuiet == ~media.loading /\ ~Busy

\* C26: under sequential operations, each changing the local list by its one
\* item when its storage call succeeds and leaving it unchanged when the call
\* reports an error, the ids of the local mediaItems list are the ids of the
\* card's rows in media_items whenever no operation is in flight
C26_ListMatchesRows ==
  (MediaQuiet /\ ~media.overlapped) => ListIds(media.mediaItems) = StoredIds

\* C27: after operations that overlapped and all succeeded in the database
\* have completed, the ids of the local list are the ids of the card's rows
C27_OverlapReflectsBoth ==
  (MediaQuiet /\ ~media.failed) => ListIds(media.mediaItems) = StoredIds

\* C28: after any sequence of successful adds and removes, the
\* display_order values of the card's rows are pairwise distinct
C28_DisplayOrderDistinct ==
  (~media.failed /\ ~media.overlapped) =>
    \A r1, r2 \in media.media_items :
      r1.display_order = r2.display_order => r1 = r2

====
